---- MODULE Spec2Model ----
(***************************************************************************)
(* Model of the housing dashboard's load path (streamlit_app.py): the      *)
(* metadata probe get_file_info, the chunked scan and per-key filter of    *)
(* load_and_filter_csv_for_zipcodes_with_individual_cache, the per-key     *)
(* cache kept in st.session_state, and the "Load Data" branch of the main  *)
(* script that validates the widgets' values, calls the loader and then    *)
(* parses dates on the frames it got back.                                  *)
(*                                                                         *)
(* Text is modelled as sequences of one-character strings, so that         *)
(* formatting, padding and parsing are computed and not assumed.           *)
(***************************************************************************)
EXTENDS Integers, Sequences, FiniteSets, TLC

VARIABLES
  session_state,  \* st.session_state restricted to the "csv_data_..." keys
  remote,         \* the version of the CSV the URL serves at present
  calls,          \* Load Data presses so far in the session
  last,           \* what the latest Load Data press did (observation record)
  prev,           \* the same record for the press before it, less its caches
  stored          \* per cache key, what it was stored with when it was created

vars == <<session_state, remote, calls, last, prev, stored>>

----------------------------------------------------------------------------
(* Bounds of the model *)

\* Load Data presses explored per session.
MaxLoads == 2

\* Load Data presses explored per session while the source changes under
\* the calls.
MaxChangingLoads == 3

\* Rows per batch: chunk_size is 10000 in the source (line 60); the model's
\* sources have a handful of rows, and the batch size is scaled with them.
chunk_size == 2

----------------------------------------------------------------------------
(* Text *)

DigitChars == <<"0", "1", "2", "3", "4", "5", "6", "7", "8", "9">>

IsDigitChar(c) == \E d \in 1..10 : DigitChars[d] = c

DigitVal(c) == (CHOOSE d \in 1..10 : DigitChars[d] = c) - 1

\* str(n) of a Python int: decimal digits, "-" in front of a negative one.
RECURSIVE StrNat(_)
StrNat(n) == IF n < 10 THEN <<DigitChars[n + 1]>>
             ELSE StrNat(n \div 10) \o <<DigitChars[(n % 10) + 1]>>

Str(n) == IF n < 0 THEN <<"-">> \o StrNat(-n) ELSE StrNat(n)

\* str.isdigit(): non-empty and every character a digit.
isdigit(s) == Len(s) > 0 /\ \A i \in 1..Len(s) : IsDigitChar(s[i])

\* str.zfill(width): "0" on the left up to the width, nothing cut off.
RECURSIVE zfill(_, _)
zfill(s, width) == IF Len(s) >= width THEN s ELSE zfill(<<"0">> \o s, width)

\* The width the keys are padded to (lines 71, 617, 625) and the length the
\* validation asks for (line 596).
ZipWidth == 5

RECURSIVE DigitsValue(_)
DigitsValue(s) == IF Len(s) = 0 THEN 0
                  ELSE 10 * DigitsValue(SubSeq(s, 1, Len(s) - 1)) + DigitVal(s[Len(s)])

\* int(text): the value of an optional sign and at least one digit; any other
\* text raises ValueError.
Value(n) == [raised |-> FALSE, value |-> n]
ValueError == [raised |-> TRUE, value |-> 0]

int(s) ==
  IF Len(s) > 0 /\ s[1] \in {"-", "+"}
  THEN IF isdigit(Tail(s))
       THEN Value((IF s[1] = "-" THEN -1 ELSE 1) * DigitsValue(Tail(s)))
       ELSE ValueError
  ELSE IF isdigit(s) THEN Value(DigitsValue(s)) ELSE ValueError

Min(a, b) == IF a < b THEN a ELSE b

----------------------------------------------------------------------------
(* The remote CSV: the versions the URL serves over a session *)

Versions == {1, 2, 3}

\* postal_code of each row, as pandas reads the column (integers).  Version 3
\* has no postal_code column at all.
PostalCodes(v) ==
  CASE v = 1 -> <<530, 7, 530>>
    [] v = 2 -> <<10001, 530, 530, 10001>>
    [] v = 3 -> <<0, 0>>

Columns(v) ==
  IF v = 3 THEN {"month_date_yyyymm", "median_listing_price"}
  ELSE {"month_date_yyyymm", "postal_code", "median_listing_price"}

\* A row keeps its 0-based position in the source; version 2's rows are told
\* from version 1's by the month they carry.
Source(v) ==
  [n \in 1..Len(PostalCodes(v)) |->
     [i |-> n - 1,
      postal_code |-> PostalCodes(v)[n],
      month_date_yyyymm |-> 202300 + v]]

\* The headers the server answers a HEAD request with, a dict from header name
\* to value.  Content-Length is text; Last-Modified is given by the timestamp
\* parsedate_to_datetime(...).timestamp() makes of it.  Version 3 is served
\* with neither.
Headers(v) ==
  CASE v = 1 -> [h \in {"content-length", "last-modified"} |->
                   IF h = "content-length" THEN <<"7">> ELSE <<11>>]
    [] v = 2 -> [h \in {"content-length", "last-modified"} |->
                   IF h = "content-length" THEN <<"1", "1">> ELSE <<7>>]
    [] v = 3 -> [h \in {} |-> <<>>]

----------------------------------------------------------------------------
(* get_file_info: the metadata probe *)

\* How the HEAD request ends: answered with a success status, or a network
\* error, a timeout or a non-success status (requests raises for each).
ProbeOutcomes == {"ok", "error"}

IntTime(n) == [is_float |-> FALSE, val |-> n]
FloatTime(n) == [is_float |-> TRUE, val |-> n]

\* The value returned on the except branch (line 35).
Sentinel == [file_size |-> 0, mod_time |-> IntTime(0), warned |-> TRUE, raised |-> FALSE]

\* The probe without its except branch: the error of the request gets out.
get_file_info_Raises(outcome, v) ==
  IF outcome = "error"
  THEN [Sentinel EXCEPT !.raised = TRUE, !.warned = FALSE]
  ELSE LET headers == Headers(v)
           file_size == IF "content-length" \in DOMAIN headers
                        THEN int(headers["content-length"])
                        ELSE Value(0)
           mod_time == IF "last-modified" \in DOMAIN headers
                       THEN FloatTime(headers["last-modified"][1])
                       ELSE IntTime(0)
       IN  [file_size |-> file_size.value, mod_time |-> mod_time,
            warned |-> FALSE, raised |-> file_size.raised]

get_file_info(outcome, v) ==
  IF outcome = "error"
  THEN Sentinel
  ELSE LET headers == Headers(v)
           file_size == IF "content-length" \in DOMAIN headers
                        THEN int(headers["content-length"])
                        ELSE Value(0)
           mod_time == IF "last-modified" \in DOMAIN headers
                       THEN FloatTime(headers["last-modified"][1])
                       ELSE IntTime(0)
       IN  IF file_size.raised
           THEN Sentinel
           ELSE [file_size |-> file_size.value, mod_time |-> mod_time,
                 warned |-> FALSE, raised |-> FALSE]

----------------------------------------------------------------------------
(* The cache key of one zip code (lines 44-47) *)

\* How an f-string prints mod_time: a float timestamp with its ".0", the
\* integer 0 without.
FmtTime(t) == IF t.is_float THEN Str(t.val) \o <<".", "0">> ELSE Str(t.val)

KeyPrefix == <<"c", "s", "v", "_", "d", "a", "t", "a", "_">>

\* The key without the row limit.
cache_key_NoRowLimit(mod_time, file_size, z, rows_to_read_int) ==
  KeyPrefix \o FmtTime(mod_time) \o <<"_">> \o Str(file_size) \o <<"_">> \o z

cache_key(mod_time, file_size, z, rows_to_read_int) ==
  KeyPrefix \o FmtTime(mod_time) \o <<"_">> \o Str(file_size) \o <<"_">> \o z
            \o <<"_">> \o Str(rows_to_read_int)

----------------------------------------------------------------------------
(* Frames *)

\* pd.DataFrame(): no rows, no columns.  id names the Python object, so that
\* two references to one frame can be told from two equal frames.
EmptyFrame(id) == [id |-> id, rows |-> <<>>, columns |-> {}]

empty(df) == Len(df.rows) = 0

Range(s) == {s[i] : i \in 1..Len(s)}

----------------------------------------------------------------------------
(* The scan (lines 58-77) *)

NumChunks(rows) == (Len(rows) + chunk_size - 1) \div chunk_size

\* The j-th batch pd.read_csv(chunksize=chunk_size) yields.
Chunk(rows, j) ==
  SubSeq(rows, (j - 1) * chunk_size + 1, Min(j * chunk_size, Len(rows)))

\* A head that cuts nothing off.
head_Whole(chunk, n) == chunk

\* chunk.head(n)
head(chunk, n) == SubSeq(chunk, 1, Min(n, Len(chunk)))

\* chunk[chunk["postal_code_str"] == z], postal_code_str being
\* astype(str).str.zfill(5) of postal_code.
FilterChunk(chunk, z) ==
  SelectSeq(chunk, LAMBDA r : zfill(Str(r.postal_code), ZipWidth) = z)

\* The inner loop over uncached_zips (lines 72-76), from its n-th element on:
\* a non-empty filtered chunk is appended to the list of its zip code.
RECURSIVE FilterInto(_, _, _, _)
FilterInto(filtered_chunks_dict, chunk, uncached_zips, n) ==
  IF n > Len(uncached_zips)
  THEN filtered_chunks_dict
  ELSE LET z == uncached_zips[n]
           filtered_chunk == FilterChunk(chunk, z)
           d == IF Len(filtered_chunk) = 0
                THEN filtered_chunks_dict
                ELSE [filtered_chunks_dict EXCEPT ![z] = @ \o <<filtered_chunk>>]
       IN  FilterInto(d, chunk, uncached_zips, n + 1)

\* The loop body with the count moved under the test for the postal_code
\* column.
ScanStep_CountUnderIf(acc, whole, has_postal_code, rows_to_read_int, uncached_zips) ==
  LET remaining_rows == rows_to_read_int - acc.total_rows_processed
      chunk == IF rows_to_read_int /= -1 /\ Len(whole) > remaining_rows
               THEN head(whole, remaining_rows)
               ELSE whole
  IN  IF has_postal_code
      THEN [acc EXCEPT
              !.total_rows_processed = @ + Len(chunk),
              !.filtered_chunks_dict = FilterInto(@, chunk, uncached_zips, 1)]
      ELSE acc

\* The body of the for loop after the break test (lines 65-77), on the batch
\* `whole`: truncate to the rows still wanted, count, filter.
ScanStep(acc, whole, has_postal_code, rows_to_read_int, uncached_zips) ==
  LET remaining_rows == rows_to_read_int - acc.total_rows_processed
      chunk == IF rows_to_read_int /= -1 /\ Len(whole) > remaining_rows
               THEN head(whole, remaining_rows)
               ELSE whole
  IN  [acc EXCEPT
         !.total_rows_processed = @ + Len(chunk),
         !.filtered_chunks_dict =
            IF has_postal_code
            THEN FilterInto(@, chunk, uncached_zips, 1)
            ELSE @]

\* fail is the set of the reads that raise: 0 is the opening of the source by
\* pd.read_csv, j >= 1 the reading of the j-th batch.  In NoFail none does.
NoFail == {}

\* The for loop over chunk_iterator from the j-th batch on.  The batch is read
\* before the row limit is looked at, as the for statement does.
RECURSIVE ScanLoop(_, _, _, _, _, _, _)
ScanLoop(rows, has_postal_code, j, rows_to_read_int, uncached_zips, fail, acc) ==
  IF j > NumChunks(rows)
  THEN acc
  ELSE IF j \in fail
  THEN [acc EXCEPT !.raised = TRUE]
  ELSE IF rows_to_read_int /= -1 /\ acc.total_rows_processed >= rows_to_read_int
  THEN acc
  ELSE ScanLoop(rows, has_postal_code, j + 1, rows_to_read_int, uncached_zips, fail,
                ScanStep(acc, Chunk(rows, j), has_postal_code, rows_to_read_int,
                         uncached_zips))

\* The scan started once per uncached zip code.
Scan_PerZip(v, rows_to_read_int, uncached_zips, fail) ==
  LET start == [passes |-> Len(uncached_zips),
                total_rows_processed |-> 0,
                filtered_chunks_dict |-> [z \in Range(uncached_zips) |-> <<>>],
                raised |-> FALSE]
  IN  IF 0 \in fail
      THEN [start EXCEPT !.raised = TRUE]
      ELSE ScanLoop(Source(v), "postal_code" \in Columns(v), 1, rows_to_read_int,
                    uncached_zips, fail, start)

\* One pass for all of uncached_zips: pd.read_csv and the loop.  passes counts
\* the calls of pd.read_csv.
Scan(v, rows_to_read_int, uncached_zips, fail) ==
  LET start == [passes |-> 1,
                total_rows_processed |-> 0,
                filtered_chunks_dict |-> [z \in Range(uncached_zips) |-> <<>>],
                raised |-> FALSE]
  IN  IF 0 \in fail
      THEN [start EXCEPT !.raised = TRUE]
      ELSE ScanLoop(Source(v), "postal_code" \in Columns(v), 1, rows_to_read_int,
                    uncached_zips, fail, start)

\* pd.concat(chunks, ignore_index=True)
RECURSIVE concat(_)
concat(chunks) == IF Len(chunks) = 0 THEN <<>> ELSE Head(chunks) \o concat(Tail(chunks))

----------------------------------------------------------------------------
(* load_and_filter_csv_for_zipcodes_with_individual_cache *)

\* The loop without line 84: the frames are returned and not cached.
RECURSIVE StoreLoop_NoCache(_, _, _, _, _, _, _)
StoreLoop_NoCache(st, uncached_zips, n, filtered_chunks_dict, columns, keys, call) ==
  IF n > Len(uncached_zips)
  THEN st
  ELSE LET z == uncached_zips[n]
           df == IF Len(filtered_chunks_dict[z]) > 0
                 THEN [id |-> <<call, n>>,
                       rows |-> concat(filtered_chunks_dict[z]),
                       columns |-> columns]
                 ELSE EmptyFrame(<<call, n>>)
       IN  StoreLoop_NoCache([zip_dfs |-> (z :> df) @@ st.zip_dfs,
                              session_state |-> st.session_state],
                             uncached_zips, n + 1, filtered_chunks_dict, columns,
                             keys, call)

\* The loop that builds and caches one frame per element of uncached_zips
\* (lines 79-84), from the n-th element on.  call and n name the new object.
RECURSIVE StoreLoop(_, _, _, _, _, _, _)
StoreLoop(st, uncached_zips, n, filtered_chunks_dict, columns, cache_keys, call) ==
  IF n > Len(uncached_zips)
  THEN st
  ELSE LET z == uncached_zips[n]
           df == IF Len(filtered_chunks_dict[z]) > 0
                 THEN [id |-> <<call, n>>,
                       rows |-> concat(filtered_chunks_dict[z]),
                       columns |-> columns]
                 ELSE EmptyFrame(<<call, n>>)
       IN  StoreLoop([zip_dfs |-> (z :> df) @@ st.zip_dfs,
                      session_state |-> (cache_keys[z] :> df) @@ st.session_state],
                     uncached_zips, n + 1, filtered_chunks_dict, columns, cache_keys,
                     call)

\* A call that caches what it has when the scan raises.
AfterScan_KeepsPartial(did, scan, st) ==
  IF scan.raised
  THEN [did EXCEPT !.raised = TRUE, !.scans = scan.passes,
                   !.session_state = st.session_state]
  ELSE [did EXCEPT !.scans = scan.passes,
                   !.total_rows_processed = scan.total_rows_processed,
                   !.zip_dfs = st.zip_dfs,
                   !.session_state = st.session_state]

\* How the call ends once the scan is over: an exception of the scan leaves
\* the function before the loop of lines 79-84, so nothing of `st` (the frames
\* that loop builds and caches) is kept; otherwise the call returns them.
AfterScan(did, scan, st) ==
  IF scan.raised
  THEN [did EXCEPT !.raised = TRUE, !.scans = scan.passes]
  ELSE [did EXCEPT !.scans = scan.passes,
                   !.total_rows_processed = scan.total_rows_processed,
                   !.zip_dfs = st.zip_dfs,
                   !.session_state = st.session_state]

\* A call that keeps in the cache only the entries it stores.
Resolve_ClearsCache(ss, zip_codes, rows_to_read_int, info, vs, fail, call) ==
  LET cache_keys == [z \in Range(zip_codes) |->
                       cache_key(info.mod_time, info.file_size, z, rows_to_read_int)]
      uncached_zips == SelectSeq(zip_codes, LAMBDA z : cache_keys[z] \notin DOMAIN ss)
      cached == [z \in {z \in Range(zip_codes) : cache_keys[z] \in DOMAIN ss} |->
                   ss[cache_keys[z]]]
      did == [raised |-> FALSE, info |-> info, probes |-> 1, scans |-> 0,
              scanned |-> IF Len(uncached_zips) = 0 THEN 0 ELSE vs,
              total_rows_processed |-> 0,
              uncached_zips |-> uncached_zips,
              zip_dfs |-> cached, session_state |-> ss]
  IN  IF info.raised
      THEN [did EXCEPT !.raised = TRUE]
      ELSE IF Len(uncached_zips) = 0
      THEN did
      ELSE LET scan == Scan(vs, rows_to_read_int, uncached_zips, fail)
               st == StoreLoop([zip_dfs |-> cached, session_state |-> <<>>],
                               uncached_zips, 1, scan.filtered_chunks_dict,
                               Columns(vs), cache_keys, call)
           IN  AfterScan(did, scan, st)

\* A call that, storing an entry under probed metadata, drops the entry the
\* same zip code and row limit have under the metadata (0, 0).
Resolve_EvictsStale(ss, zip_codes, rows_to_read_int, info, vs, fail, call) ==
  LET cache_keys == [z \in Range(zip_codes) |->
                       cache_key(info.mod_time, info.file_size, z, rows_to_read_int)]
      uncached_zips == SelectSeq(zip_codes, LAMBDA z : cache_keys[z] \notin DOMAIN ss)
      cached == [z \in {z \in Range(zip_codes) : cache_keys[z] \in DOMAIN ss} |->
                   ss[cache_keys[z]]]
      did == [raised |-> FALSE, info |-> info, probes |-> 1, scans |-> 0,
              scanned |-> IF Len(uncached_zips) = 0 THEN 0 ELSE vs,
              total_rows_processed |-> 0,
              uncached_zips |-> uncached_zips,
              zip_dfs |-> cached, session_state |-> ss]
  IN  IF info.raised
      THEN [did EXCEPT !.raised = TRUE]
      ELSE IF Len(uncached_zips) = 0
      THEN did
      ELSE LET scan == Scan(vs, rows_to_read_int, uncached_zips, fail)
               st == StoreLoop([zip_dfs |-> cached,
                                session_state |->
                                  IF info.mod_time = IntTime(0) /\ info.file_size = 0
                                  THEN ss
                                  ELSE [k \in DOMAIN ss \
                                          {cache_key(IntTime(0), 0, z, rows_to_read_int) :
                                             z \in Range(uncached_zips)} |-> ss[k]]],
                               uncached_zips, 1, scan.filtered_chunks_dict,
                               Columns(vs), cache_keys, call)
           IN  AfterScan(did, scan, st)

\* The call from line 44 on, info being what the probe of line 42 gave.  The
\* result tells whether the call raised, the cache it leaves and the zip_dfs
\* it returns, and what it did on the way.  Line 42 has no handler: were
\* get_file_info to raise, the call would end there.
Resolve(ss, zip_codes, rows_to_read_int, info, vs, fail, call) ==
  LET cache_keys == [z \in Range(zip_codes) |->
                       cache_key(info.mod_time, info.file_size, z, rows_to_read_int)]
      uncached_zips == SelectSeq(zip_codes, LAMBDA z : cache_keys[z] \notin DOMAIN ss)
      cached == [z \in {z \in Range(zip_codes) : cache_keys[z] \in DOMAIN ss} |->
                   ss[cache_keys[z]]]
      did == [raised |-> FALSE, info |-> info, probes |-> 1, scans |-> 0,
              scanned |-> IF Len(uncached_zips) = 0 THEN 0 ELSE vs,
              total_rows_processed |-> 0,
              uncached_zips |-> uncached_zips,
              zip_dfs |-> cached, session_state |-> ss]
  IN  IF info.raised
      THEN [did EXCEPT !.raised = TRUE]
      ELSE IF Len(uncached_zips) = 0
      THEN did
      ELSE LET scan == Scan(vs, rows_to_read_int, uncached_zips, fail)
               st == StoreLoop([zip_dfs |-> cached, session_state |-> ss],
                               uncached_zips, 1, scan.filtered_chunks_dict,
                               Columns(vs), cache_keys, call)
           IN  AfterScan(did, scan, st)

\* One call, on the cache ss: the probe sees version vp of the source and ends
\* as outcome says, the scan (if any) reads version vs and fails as fail says.
\* call numbers the call.
load_and_filter_csv_for_zipcodes_with_individual_cache(ss, zip_codes, rows_to_read_int, outcome, vp, vs, fail, call) ==
  Resolve(ss, zip_codes, rows_to_read_int, get_file_info(outcome, vp), vs, fail, call)

----------------------------------------------------------------------------
(* The main script: the Load Data branch (lines 595-659) *)

\* What the widgets can hold when the button is pressed.  The tags are the
\* values left by line 576 (stripped, empty ones dropped).
Zip00530 == <<"0", "0", "5", "3", "0">>
Zip10001 == <<"1", "0", "0", "0", "1">>
Raw530   == <<"5", "3", "0">>
Zip1000a == <<"1", "0", "0", "0", "a">>

Url == "https://host/data.csv"

M1 == <<"-", "1">>

\* What the three widgets hold at a press: requests that pass the validation,
\* and requests that fail it in each way.
ValidPresses ==
  { [zip_codes |-> <<Zip00530>>,           csv_url |-> Url, rows_to_read |-> M1],
    [zip_codes |-> <<Zip00530>>,           csv_url |-> Url, rows_to_read |-> <<"0">>],
    [zip_codes |-> <<Zip00530, Zip10001>>, csv_url |-> Url, rows_to_read |-> M1],
    [zip_codes |-> <<Zip10001, Zip00530>>, csv_url |-> Url, rows_to_read |-> <<"3">>],
    [zip_codes |-> <<Zip00530, Zip00530>>, csv_url |-> Url, rows_to_read |-> M1] }

InvalidPresses ==
  { [zip_codes |-> <<>>,                   csv_url |-> Url, rows_to_read |-> M1],
    [zip_codes |-> <<Raw530>>,             csv_url |-> Url, rows_to_read |-> M1],
    [zip_codes |-> <<Zip10001, Zip1000a>>, csv_url |-> Url, rows_to_read |-> M1],
    [zip_codes |-> <<Zip00530>>,           csv_url |-> "",  rows_to_read |-> M1],
    [zip_codes |-> <<Zip00530>>,           csv_url |-> Url, rows_to_read |-> <<"x">>],
    [zip_codes |-> <<Zip00530>>,           csv_url |-> Url, rows_to_read |-> <<"-", "2">>] }

Presses == ValidPresses \cup InvalidPresses

\* The ways a scan of version v can go: no failure, or one read that raises.
FailPoints(v) == {NoFail} \cup {{j} : j \in 0..NumChunks(Source(v))}

\* The check without its test of the length.
valid_zip_codes_NoLength(zip_codes) ==
  /\ Len(zip_codes) > 0
  /\ \A n \in 1..Len(zip_codes) : isdigit(zip_codes[n])

\* The check of line 596 on the tags.
valid_zip_codes(zip_codes) ==
  /\ Len(zip_codes) > 0
  /\ \A n \in 1..Len(zip_codes) :
       isdigit(zip_codes[n]) /\ Len(zip_codes[n]) = ZipWidth

\* The loop over the tabs (lines 624-634), from the n-th tag on: the frame of
\* a zip code that has rows gets its "date" column, assigned on the frame
\* object itself; that is the object the cache holds.  Sorting makes a copy,
\* and the charts work on the copy.  A frame without month_date_yyyymm raises
\* KeyError and ends the run.
RECURSIVE TabsLoop(_, _, _, _)
TabsLoop(ss, zip_dfs, zip_codes, n) ==
  IF n > Len(zip_codes)
  THEN ss
  ELSE LET filtered_df == zip_dfs[zfill(zip_codes[n], ZipWidth)]
       IN  IF empty(filtered_df)
           THEN TabsLoop(ss, zip_dfs, zip_codes, n + 1)
           ELSE IF "month_date_yyyymm" \notin filtered_df.columns
           THEN ss
           ELSE TabsLoop([k \in DOMAIN ss |->
                            IF ss[k].id = filtered_df.id
                            THEN [ss[k] EXCEPT !.columns = @ \cup {"date"}]
                            ELSE ss[k]],
                         zip_dfs, zip_codes, n + 1)

\* The record of a press that has not happened.
NoPress == [zip_codes |-> <<>>, csv_url |-> "", rows_to_read |-> <<>>]

NoCall ==
  [status |-> "none", error |-> "", press |-> NoPress, outcome |-> "none",
   zip_codes |-> <<>>, rows_to_read_int |-> -1,
   info |-> Sentinel, probes |-> 0, scans |-> 0, scanned |-> 0,
   total_rows_processed |-> 0, uncached_zips |-> <<>>, zip_dfs |-> <<>>,
   before |-> <<>>, after |-> <<>>]

\* A run that ends at one of the st.error calls of lines 597-614.
Invalid(ss, press, what) ==
  [session_state |-> ss,
   obs |-> [NoCall EXCEPT !.status = "invalid", !.error = what, !.press = press,
                          !.before = ss, !.after = ss]]

\* The arguments of line 617: every tag padded to five characters.
Args(zip_codes) == [n \in 1..Len(zip_codes) |-> zfill(zip_codes[n], ZipWidth)]

\* The run from line 620 on, r being what the loader returned or raised: the
\* tabs, and the record of what the run did.
AfterLoad(ss, press, outcome, rows_to_read_int, r) ==
  [session_state |-> IF r.raised
                     THEN r.session_state
                     ELSE TabsLoop(r.session_state, r.zip_dfs, press.zip_codes, 1),
   obs |-> [status |-> IF r.raised THEN "scan_error" ELSE "ok",
            error |-> "", press |-> press, outcome |-> outcome,
            zip_codes |-> Args(press.zip_codes),
            rows_to_read_int |-> rows_to_read_int,
            info |-> r.info, probes |-> r.probes, scans |-> r.scans,
            scanned |-> r.scanned,
            total_rows_processed |-> r.total_rows_processed,
            uncached_zips |-> r.uncached_zips,
            zip_dfs |-> IF r.raised THEN <<>> ELSE r.zip_dfs,
            before |-> ss, after |-> r.session_state]]

\* One press: the validation, the call of the loader, the tabs.  The result is
\* the session state the run leaves and the record of what it did.
LoadData(ss, press, outcome, vp, vs, fail, call) ==
  IF ~valid_zip_codes(press.zip_codes)
  THEN Invalid(ss, press, "zip")
  ELSE IF press.csv_url = ""
  THEN Invalid(ss, press, "url")
  ELSE IF int(press.rows_to_read).raised
  THEN Invalid(ss, press, "rows_value")
  ELSE IF int(press.rows_to_read).value < -1
  THEN Invalid(ss, press, "rows_range")
  ELSE AfterLoad(ss, press, outcome, int(press.rows_to_read).value,
                 load_and_filter_csv_for_zipcodes_with_individual_cache(
                   ss, Args(press.zip_codes), int(press.rows_to_read).value,
                   outcome, vp, vs, fail, call))

----------------------------------------------------------------------------
(* The session *)

\* The identity of the cache entry of zip code z in the call obs records: the
\* four values line 45 prints into the key.
Fingerprint(obs, z) ==
  <<obs.info.mod_time, obs.info.file_size, z, obs.rows_to_read_int>>

KeyOf(obs, z) ==
  cache_key(obs.info.mod_time, obs.info.file_size, z, obs.rows_to_read_int)

\* What the run obs records adds to `stored`: for each cache key it created,
\* the fingerprint it was computed for and the frame as the loader returned it.
\* What was recorded stays recorded.
Record(st, obs, ss) ==
  [k \in DOMAIN ss \cup DOMAIN st |->
     IF k \in DOMAIN st
     THEN st[k]
     ELSE LET z == CHOOSE z \in Range(obs.uncached_zips) : KeyOf(obs, z) = k
          IN  [fingerprint |-> Fingerprint(obs, z),
               df |-> IF z \in DOMAIN obs.zip_dfs THEN obs.zip_dfs[z] ELSE ss[k]]]

Init ==
  /\ session_state = <<>>
  /\ remote = 1
  /\ calls = 0
  /\ last = NoCall
  /\ prev = NoCall
  /\ stored = <<>>

\* What a run of the script leaves behind: the session state, and the record
\* of the run.  A run that made no request has no outcome of one to tell.
Rerun(run, outcome, fail) ==
  /\ run.obs.probes = 0 => outcome = "ok"
  /\ run.obs.scans = 0 => fail = NoFail
  /\ session_state' = run.session_state
  /\ last' = [run.obs EXCEPT !.outcome = IF run.obs.probes = 0 THEN "none" ELSE @]
  /\ prev' = [last EXCEPT !.before = <<>>, !.after = <<>>]
  /\ stored' = Record(stored, run.obs, run.session_state)
  /\ calls' = calls + 1
  /\ UNCHANGED remote

\* The user presses Load Data.
Load ==
  /\ calls < MaxLoads
  /\ \E press \in Presses, outcome \in ProbeOutcomes, fail \in FailPoints(remote) :
       Rerun(LoadData(session_state, press, outcome, remote, remote, fail, calls + 1),
             outcome, fail)

\* The publisher replaces the CSV by its next version between two presses.
Replace ==
  /\ remote + 1 \in Versions
  /\ remote' = remote + 1
  /\ UNCHANGED <<session_state, calls, last, prev, stored>>

Next == Load \/ Replace

Spec == Init /\ [][Next]_vars

----------------------------------------------------------------------------
(* The session while the publisher replaces the source under the calls *)

\* The presses of these sessions: one zip code or two, the whole file.
ChangingPresses ==
  { [zip_codes |-> <<Zip00530>>,           csv_url |-> Url, rows_to_read |-> M1],
    [zip_codes |-> <<Zip00530, Zip10001>>, csv_url |-> Url, rows_to_read |-> M1] }

\* A press served by one version of the source from the probe to the end of
\* the scan.
LoadSteady ==
  /\ calls < MaxChangingLoads
  /\ \E press \in ChangingPresses, outcome \in ProbeOutcomes :
       Rerun(LoadData(session_state, press, outcome, remote, remote, NoFail, calls + 1),
             outcome, NoFail)

\* What a run leaves behind when the source was replaced by version v under
\* it: the run scanned, and the URL serves v from then on.
RerunReplaced(run, v) ==
  /\ run.obs.scans = 1
  /\ session_state' = run.session_state
  /\ last' = run.obs
  /\ prev' = [last EXCEPT !.before = <<>>, !.after = <<>>]
  /\ stored' = Record(stored, run.obs, run.session_state)
  /\ calls' = calls + 1
  /\ remote' = v

\* A press during which the publisher replaces the source: the HEAD request
\* of line 15 is answered for the version in place, pd.read_csv (line 61)
\* fetches the next one.
LoadReplaced ==
  /\ calls < MaxChangingLoads
  /\ remote + 1 \in Versions
  /\ \E press \in ChangingPresses, outcome \in ProbeOutcomes :
       RerunReplaced(LoadData(session_state, press, outcome, remote, remote + 1,
                              NoFail, calls + 1),
                     remote + 1)

NextChanging == LoadSteady \/ LoadReplaced \/ Replace

SpecChanging == Init /\ [][NextChanging]_vars

----------------------------------------------------------------------------
(* What the claims speak of *)

\* The press reached the loader.
Ran(obs) == obs.status \in {"ok", "scan_error"}

\* The requested zip codes the call found in the cache.
Hits(obs) == Range(obs.zip_codes) \ Range(obs.uncached_zips)

\* The rows a scan that is not interrupted reads: all of the source, or its
\* first row-limit rows.
ScannedRows(obs) ==
  LET rows == Source(obs.scanned)
  IN  IF obs.rows_to_read_int = -1
      THEN rows
      ELSE SubSeq(rows, 1, Min(obs.rows_to_read_int, Len(rows)))

\* The scanned rows whose postal code, padded to five digits, is z.
Matches(obs, z) ==
  IF "postal_code" \in Columns(obs.scanned)
  THEN {r \in Range(ScannedRows(obs)) : zfill(Str(r.postal_code), ZipWidth) = z}
  ELSE {}

\* Same URL, zip codes and row limit, and the same answer of the probe.
SameCall(a, b) ==
  /\ a.press.csv_url = b.press.csv_url
  /\ a.zip_codes = b.zip_codes
  /\ a.rows_to_read_int = b.rows_to_read_int
  /\ a.info.file_size = b.info.file_size
  /\ a.info.mod_time = b.info.mod_time

----------------------------------------------------------------------------
(* C1 *)

----------------------------------------------------------------------------
(* C2 *)

\* C2: a call starts the scan once when some requested zip code is not cached
\* and never when all are, however many are requested or uncached; every
\* uncached zip code gets a frame made by that call from the rows of that one
\* scan.
C2_SinglePass ==
  Ran(last)
  => /\ last.scans = IF Len(last.uncached_zips) > 0 THEN 1 ELSE 0
     /\ last.status = "ok"
        => \A z \in Range(last.uncached_zips) :
             /\ z \in DOMAIN last.zip_dfs
             /\ last.zip_dfs[z].id[1] = calls
             /\ Range(last.zip_dfs[z].rows) = Matches(last, z)

\* Two distinct zip codes, neither cached, both with rows, one scan.
C2_Witness ==
  /\ last.status = "ok" /\ last.scans = 1
  /\ Cardinality(Range(last.uncached_zips)) = 2
  /\ \A z \in Range(last.uncached_zips) : ~empty(last.zip_dfs[z])

----------------------------------------------------------------------------
(* C3 *)

\* The fingerprints the session has met: those entries were stored for, and
\* those of the latest call.
KnownFingerprints ==
  {stored[k].fingerprint : k \in DOMAIN stored}
    \cup (IF Ran(last) THEN {Fingerprint(last, z) : z \in Range(last.zip_codes)} ELSE {})

----------------------------------------------------------------------------
(* C4 *)

\* C4: a scan of a source of N rows with row limit L >= 0 ends with
\* total_rows_processed = min(L, N), and no frame it makes holds a row of
\* source index >= L; with row limit -1 it ends with total_rows_processed = N.
C4_RowLimit ==
  (last.status = "ok" /\ last.scans = 1)
  => LET N == Len(Source(last.scanned))
         L == last.rows_to_read_int
     IN  /\ last.total_rows_processed = IF L = -1 THEN N ELSE Min(L, N)
         /\ L /= -1
            => \A z \in Range(last.uncached_zips) :
                 \A n \in 1..Len(last.zip_dfs[z].rows) :
                   last.zip_dfs[z].rows[n].i < L

\* A limit inside the source that is no multiple of the batch size: the last
\* batch read is cut.
C4_Witness ==
  /\ last.status = "ok" /\ last.scans = 1
  /\ last.rows_to_read_int > 0
  /\ last.rows_to_read_int < Len(Source(last.scanned))
  /\ last.rows_to_read_int % chunk_size /= 0
  /\ last.total_rows_processed = last.rows_to_read_int
  /\ \E z \in Range(last.uncached_zips) : ~empty(last.zip_dfs[z])

----------------------------------------------------------------------------
(* C5 *)

\* C5: every lookup of a cached zip code returns the frame as it was stored
\* when it was computed, with the same rows and the same columns.
C5_LookupVerbatim ==
  last.status = "ok"
  => \A z \in Hits(last) : last.zip_dfs[z] = stored[KeyOf(last, z)].df

----------------------------------------------------------------------------
(* C6 *)

\* C6: a call whose scan fails leaves the cache exactly as it found it; every
\* zip code that was uncached in it is still uncached, and the next call with
\* the same arguments and probe result scans for the same zip codes.
C6_FailedScanWritesNothing ==
  /\ last.status = "scan_error"
     => /\ last.scans = 1
        /\ session_state = last.before
        /\ \A z \in Range(last.uncached_zips) : KeyOf(last, z) \notin DOMAIN session_state
  /\ (prev.status = "scan_error" /\ Ran(last) /\ SameCall(prev, last))
     => /\ last.uncached_zips = prev.uncached_zips
        /\ last.scans = 1

\* A failed scan with entries of an earlier call in the cache.
C6_Witness ==
  /\ last.status = "scan_error"
  /\ DOMAIN last.before /= {}
  /\ Len(last.uncached_zips) > 0

----------------------------------------------------------------------------
(* C7 *)

\* What the press must hold for the load to be attempted.
ValidInput(press) ==
  /\ Len(press.zip_codes) > 0
  /\ \A n \in 1..Len(press.zip_codes) :
       /\ Len(press.zip_codes[n]) = 5
       /\ \A i \in 1..5 : press.zip_codes[n][i] \in Range(DigitChars)
  /\ press.csv_url /= ""
  /\ ~int(press.rows_to_read).raised
  /\ int(press.rows_to_read).value >= -1

\* C7: a press with an empty list of zip codes, a zip code that is not five
\* digits, an empty URL, a row limit that is no integer or one below -1 ends
\* in an error with no probe, no scan and the cache as it was; the probe and
\* the scan run only for valid input.
C7_ValidationFirst ==
  last.status /= "none"
  => /\ ~ValidInput(last.press)
        => /\ last.status = "invalid"
           /\ last.error /= ""
           /\ last.probes = 0
           /\ last.scans = 0
           /\ session_state = last.before
     /\ (last.probes > 0 \/ last.scans > 0) => ValidInput(last.press)

\* A row limit below -1, refused with entries in the cache.
C7_Witness ==
  /\ last.status = "invalid"
  /\ last.error = "rows_range"
  /\ DOMAIN last.before /= {}
  /\ session_state = last.before

----------------------------------------------------------------------------
(* C8 *)

\* C8: a press for the raw key 530 gives what a press for 00530 gives: the
\* load is done for the padded key, and it returns the rows of postal code
\* 00530 the scan read.
C8_KeyNormalization ==
  (/\ last.press.zip_codes = <<Raw530>>
   /\ last.press.csv_url /= ""
   /\ ~int(last.press.rows_to_read).raised
   /\ int(last.press.rows_to_read).value >= -1)
  => /\ Ran(last)
     /\ last.zip_codes = <<Zip00530>>
     /\ last.status = "ok" => Zip00530 \in DOMAIN last.zip_dfs

----------------------------------------------------------------------------
(* C9 *)

\* C9: when the request of the probe fails, the probe raises nothing and
\* returns (0, 0), and the call goes on with the keys made of these values:
\* it looks them up in the cache and scans once if any is missing.
C9_ProbeFailsSoft ==
  last.outcome = "error"
  => /\ ~last.info.raised
     /\ last.info.file_size = 0
     /\ last.info.mod_time = IntTime(0)
     /\ last.info.warned
     /\ Ran(last)
     /\ last.uncached_zips =
          SelectSeq(last.zip_codes,
                    LAMBDA z : cache_key(IntTime(0), 0, z, last.rows_to_read_int)
                                 \notin DOMAIN last.before)
     /\ last.scans = IF Len(last.uncached_zips) > 0 THEN 1 ELSE 0
     /\ last.status = "ok"
        => \A z \in Range(last.zip_codes) :
             cache_key(IntTime(0), 0, z, last.rows_to_read_int) \in DOMAIN session_state

\* A failed probe followed by a scan that found rows.
C9_Witness ==
  /\ last.outcome = "error"
  /\ last.status = "ok"
  /\ last.scans = 1
  /\ \E z \in Range(last.uncached_zips) : ~empty(last.zip_dfs[z])

----------------------------------------------------------------------------
(* C10 *)

\* C10: an uncached zip code that no scanned row matches (in particular any
\* zip code when the source has no postal_code column) gets an empty frame,
\* and total_rows_processed is the number of rows scanned whatever the zip
\* codes asked for or matched.
C10_EmptyMatch ==
  (last.status = "ok" /\ last.scans = 1)
  => /\ last.total_rows_processed = Len(ScannedRows(last))
     /\ \A z \in Range(last.uncached_zips) :
          Matches(last, z) = {} => last.zip_dfs[z] = EmptyFrame(last.zip_dfs[z].id)

\* A scan of rows none of which matches one of the zip codes asked for.
C10_Witness ==
  /\ last.status = "ok" /\ last.scans = 1
  /\ last.total_rows_processed > 0
  /\ "postal_code" \in Columns(last.scanned)
  /\ \E z \in Range(last.uncached_zips) : empty(last.zip_dfs[z])

----------------------------------------------------------------------------
(* C11 *)

\* The scanned rows whose postal code, padded to five digits, is z, in the
\* order of the source.
MatchSeq(obs, z) ==
  IF "postal_code" \in Columns(obs.scanned)
  THEN SelectSeq(ScannedRows(obs), LAMBDA r : zfill(Str(r.postal_code), ZipWidth) = z)
  ELSE <<>>

\* C11: the frame a call computes for an uncached zip code is exactly the
\* subsequence of the scanned rows of that zip code, in source order across
\* the batches: no row reordered, dropped, repeated or taken from another key.
C11_StableFilter ==
  (last.status = "ok" /\ last.scans = 1)
  => \A z \in Range(last.uncached_zips) : last.zip_dfs[z].rows = MatchSeq(last, z)

----------------------------------------------------------------------------
(* C12 *)

\* The keys of the zip codes the call obs records asked for and did not find.
NewKeys(obs) == {KeyOf(obs, z) : z \in Range(obs.uncached_zips)}

\* C12: a call that completes splits the zip codes asked for by the presence
\* of their key in the cache; it adds one entry per uncached zip code, under
\* that zip code's own key, changes and removes no entry that was there, and
\* returns one frame per zip code asked for: the entry for a cached one, the
\* frame it just made and stored for an uncached one.
C12_Frame ==
  last.status = "ok"
  => /\ last.uncached_zips =
          SelectSeq(last.zip_codes, LAMBDA z : KeyOf(last, z) \notin DOMAIN last.before)
     /\ DOMAIN last.after = DOMAIN last.before \cup NewKeys(last)
     /\ Cardinality(DOMAIN last.after \ DOMAIN last.before)
          = Cardinality(Range(last.uncached_zips))
     /\ \A k \in DOMAIN last.before : last.after[k] = last.before[k]
     /\ DOMAIN last.zip_dfs = Range(last.zip_codes)
     /\ \A z \in Hits(last) : last.zip_dfs[z] = last.before[KeyOf(last, z)]
     /\ \A z \in Range(last.uncached_zips) :
          /\ last.zip_dfs[z].id[1] = calls
          /\ last.after[KeyOf(last, z)] = last.zip_dfs[z]

\* A call that finds one zip code in the cache, with rows, and scans for
\* another, which has rows too.
C12_Witness ==
  /\ last.status = "ok"
  /\ \E z \in Hits(last) : ~empty(last.zip_dfs[z])
  /\ \E z \in Range(last.uncached_zips) : ~empty(last.zip_dfs[z])

----------------------------------------------------------------------------
(* C13 *)

\* The key of zip code z and row limit n when the probe returned (0, 0).
SentinelKey(z, n) == cache_key(IntTime(0), 0, z, n)

\* The zip codes of the call obs records that had an entry under the (0, 0)
\* metadata, for the row limit of the call, stored by an earlier call.
SentinelStored(obs) ==
  {z \in Range(obs.zip_codes) :
     /\ SentinelKey(z, obs.rows_to_read_int) \in DOMAIN stored
     /\ stored[SentinelKey(z, obs.rows_to_read_int)].df.id[1] < calls}

\* C13: in a call whose probe fails the key of a zip code is made of the zip
\* code and the row limit alone; a zip code that any earlier call stored under
\* such a key is taken from the cache, the very frame stored then, and when
\* all zip codes asked for are so the call does not scan, whatever happened
\* to the source or to the probe in the calls between.
C13_SentinelReuse ==
  (Ran(last) /\ last.outcome = "error")
  => /\ \A z \in Range(last.zip_codes) :
          KeyOf(last, z) = SentinelKey(z, last.rows_to_read_int)
     /\ \A z \in SentinelStored(last) :
          /\ z \in Hits(last)
          /\ last.status = "ok"
             => LET e == stored[SentinelKey(z, last.rows_to_read_int)].df
                IN  /\ last.zip_dfs[z].id = e.id
                    /\ last.zip_dfs[z].rows = e.rows
     /\ SentinelStored(last) = Range(last.zip_codes) => last.scans = 0

\* Three calls for one zip code: a failed probe, the source replaced, a probe
\* that succeeds and a scan, a failed probe again; the third call returns the
\* frame of the first, which the source no longer gives.
C13_Witness ==
  /\ last.outcome = "error" /\ last.status = "ok" /\ last.scans = 0
  /\ prev.outcome = "ok" /\ prev.status = "ok" /\ prev.scans = 1
  /\ prev.info.mod_time /= IntTime(0)
  /\ prev.rows_to_read_int = last.rows_to_read_int
  /\ \E z \in Range(last.zip_codes) \cap Range(prev.uncached_zips) :
       /\ ~empty(last.zip_dfs[z])
       /\ last.zip_dfs[z].id /= prev.zip_dfs[z].id
       /\ last.zip_dfs[z].rows
            /= MatchSeq([scanned |-> remote, rows_to_read_int |-> last.rows_to_read_int], z)

----------------------------------------------------------------------------
(* C14 *)

\* How often row r occurs in the frame df.
Occurrences(df, r) == Cardinality({n \in 1..Len(df.rows) : df.rows[n] = r})

\* C14: whatever the list of zip codes passed to the loader, one zip code
\* twice included, every scanned row of zip code z occurs exactly once in the
\* frame computed and cached for z.
C14_NoDuplicatedRows ==
  (last.status = "ok" /\ last.scans = 1)
  => \A z \in Range(last.uncached_zips) :
       \A r \in Matches(last, z) :
         /\ Occurrences(last.zip_dfs[z], r) = 1
         /\ Occurrences(stored[KeyOf(last, z)].df, r) = 1

----------------------------------------------------------------------------
(* C15 *)

\* Version v of the source answers the probe with the metadata of fingerprint f.
HasMetadata(v, f) ==
  /\ get_file_info("ok", v).mod_time = f[1]
  /\ get_file_info("ok", v).file_size = f[2]

\* C15: a call probes once, before it scans, and every entry stored under
\* probed metadata (not the (0, 0) of a failed probe) holds the rows of its
\* zip code in a version of the source that has this metadata, also when the
\* source is replaced between the probe and the scan.
C15_FingerprintContent ==
  /\ Ran(last) => last.probes = 1
  /\ \A k \in DOMAIN stored :
       LET f == stored[k].fingerprint
       IN  (f[1] /= IntTime(0) \/ f[2] /= 0)
           => \E v \in Versions :
                /\ HasMetadata(v, f)
                /\ stored[k].df.rows
                     = MatchSeq([scanned |-> v, rows_to_read_int |-> f[4]], f[3])

====
